---- MODULE Spec2Model ----
(***************************************************************************)
(* Eco-Sync: the carbon-emissions scenario engine of the dashboard         *)
(* (dashboard/lib/scenarioCalculator.ts) as a state machine.               *)
(*                                                                         *)
(* Numbers.  The engine computes with JavaScript doubles; the model keeps  *)
(* exact arithmetic over integers:                                         *)
(*   - an emission factor is held times 10^4 (0.0112 g/kg/km is 112);      *)
(*   - an emission figure is held in units of 10^-7 kg CO2e, so that       *)
(*     (weight_kg * distance * factor) / 1000 is weight * distance *       *)
(*     factor-times-10^4, an integer, and sums and differences are exact;  *)
(*   - the result of a JavaScript division followed by "* 100" is a        *)
(*     record: [tag |-> "num", num |-> n, den |-> d] stands for the finite *)
(*     value 100 * n / d (d > 0), and the tags "NaN", "Infinity" and       *)
(*     "-Infinity" stand for the non-numeric results a division by zero    *)
(*     yields.                                                             *)
(***************************************************************************)
EXTENDS Integers, Sequences, FiniteSets, TLC

(***************************************************************************)
(* Bounds of the model.                                                    *)
(***************************************************************************)
MaxLogs == 2      \* longest record sequence handed to the engine
MaxWeight == 2    \* weight_kg of the heavier records

(***************************************************************************)
(* Reference tables.                                                       *)
(***************************************************************************)
EMISSION_FACTORS == [air |-> 2550, sea |-> 112, land |-> 613]

DISTANCE_LOOKUP ==
    ("Shanghai, China-Los Angeles, USA" :> 12000) @@
    ("Tokyo, Japan-New York, USA" :> 10800) @@
    ("Berlin, Germany-Paris, France" :> 880) @@
    ("Singapore, Singapore-Dubai, UAE" :> 3600) @@
    ("Mumbai, India-London, UK" :> 7200) @@
    ("Mexico City, Mexico-Toronto, Canada" :> 2100) @@
    ("Rotterdam, Netherlands-Hamburg, Germany" :> 450)

DefaultDistance == 5000

TransportTypes == {"air", "sea", "land"}

\* JavaScript null / undefined of an optional argument.
Null == "null"

(***************************************************************************)
(* The inputs the model draws from.                                        *)
(***************************************************************************)
Locations ==
    {"Tokyo, Japan", "New York, USA", "Berlin, Germany", "Paris, France", "Lima, Peru"}

\* Routes of the records: one stored in the table as written, one stored
\* only in the reverse direction, one absent from the table.
Routes ==
    { <<"Tokyo, Japan", "New York, USA">>,
      <<"Paris, France", "Berlin, Germany">>,
      <<"Lima, Peru", "Tokyo, Japan">> }

\* A light record and a heavy one.
Weights == {1, MaxWeight}

RecordIds == <<"SC001", "SC002", "SC003", "SC004">>

UnknownId == "SC009"

\* The records that can stand at position i of a sequence: ids are unique
\* (the i-th record has the i-th id).
RecordsAt(i) ==
    { [id |-> RecordIds[i], origin |-> rt[1], destination |-> rt[2],
       weight_kg |-> w, transport_type |-> t] :
        rt \in Routes, w \in Weights, t \in TransportTypes }

RECURSIVE LogsOfLen(_)
LogsOfLen(n) ==
    IF n = 0 THEN { <<>> }
    ELSE { Append(ls, r) : ls \in LogsOfLen(n - 1), r \in RecordsAt(n) }

LogSets == UNION { LogsOfLen(n) : n \in 0..MaxLogs }

SourceArgs == TransportTypes \cup {"all", Null}
TargetArgs == TransportTypes \cup {Null}
RouteIdArgs == { RecordIds[i] : i \in 1..MaxLogs } \cup {UnknownId, Null}

(***************************************************************************)
(* JavaScript helpers.                                                     *)
(***************************************************************************)
\* Truthiness of an optional string argument.
Truthy(s) == s # Null /\ s # ""

RECURSIVE SumSeq(_)
SumSeq(s) == IF s = <<>> THEN 0 ELSE s[1] + SumSeq(Tail(s))

Max(a, b) == IF a >= b THEN a ELSE b

NaN == [tag |-> "NaN", num |-> 0, den |-> 0]
PosInfinity == [tag |-> "Infinity", num |-> 0, den |-> 0]
NegInfinity == [tag |-> "-Infinity", num |-> 0, den |-> 0]

\* (a / b) * 100 on non-negative b.
Percent(a, b) ==
    IF b = 0
    THEN (IF a = 0 THEN NaN ELSE IF a > 0 THEN PosInfinity ELSE NegInfinity)
    ELSE [tag |-> "num", num |-> a, den |-> b]

IsNumeric(p) == p.tag = "num"
LtZero(p) == (p.tag = "num" /\ p.num < 0) \/ p.tag = "-Infinity"

(***************************************************************************)
(* Get distance for a route, with fallback.                                *)
(***************************************************************************)
Lookup(key) == IF key \in DOMAIN DISTANCE_LOOKUP THEN DISTANCE_LOOKUP[key] ELSE 0

\* A lookup that never tries the reversed pair.
getDistanceForwardOnly(origin, destination) ==
    LET key == origin \o "-" \o destination
    IN  IF Lookup(key) # 0 THEN Lookup(key) ELSE DefaultDistance

\* A lookup without the default: a route in neither direction yields the
\* table's missing entry.
getDistanceNoDefault(origin, destination) ==
    LET key == origin \o "-" \o destination
        reverseKey == destination \o "-" \o origin
    IN  IF Lookup(key) # 0 THEN Lookup(key) ELSE Lookup(reverseKey)

getDistance(origin, destination) ==
    LET key == origin \o "-" \o destination
        reverseKey == destination \o "-" \o origin
    IN  IF Lookup(key) # 0 THEN Lookup(key)
        ELSE IF Lookup(reverseKey) # 0 THEN Lookup(reverseKey)
        ELSE DefaultDistance

(***************************************************************************)
(* Calculate total emissions for all logs.                                 *)
(***************************************************************************)
\* A total that reads the table by the ordered pair only.
totalByOrderedPair(ls) ==
    SumSeq([i \in 1..Len(ls) |->
        LET key == ls[i].origin \o "-" \o ls[i].destination
            distance == IF Lookup(key) # 0 THEN Lookup(key) ELSE DefaultDistance
        IN  ls[i].weight_kg * distance * EMISSION_FACTORS[ls[i].transport_type]])

\* A total that stops one record short.
totalSkippingLast(ls) ==
    SumSeq([i \in 1..(Len(ls) - 1) |->
        ls[i].weight_kg * getDistance(ls[i].origin, ls[i].destination)
            * EMISSION_FACTORS[ls[i].transport_type]])

calculateTotalEmissions(ls) ==
    SumSeq([i \in 1..Len(ls) |->
        LET distance == getDistance(ls[i].origin, ls[i].destination)
            factor == EMISSION_FACTORS[ls[i].transport_type]
        IN  ls[i].weight_kg * distance * factor])

(***************************************************************************)
(* Generate contextual recommendation based on scenario: which of the five *)
(* templates is returned, with the figures it is filled in with.           *)
(***************************************************************************)
\* A recommendation that takes a change of zero for an improvement.
recommendationWithZeroImproving(targetTransport, sourceTransport, percentChange, affectedCount) ==
    LET isImprovement == LtZero(percentChange)
                            \/ (percentChange.tag = "num" /\ percentChange.num = 0)
        kind ==
            IF isImprovement
            THEN (IF targetTransport = "sea" THEN "reduction-to-sea"
                  ELSE IF targetTransport = "land" THEN "reduction-to-land"
                  ELSE "generic-reduction")
            ELSE (IF targetTransport = "air" THEN "increase-to-air"
                  ELSE "generic-increase")
    IN  [kind |-> kind, percentChange |-> percentChange,
         affectedCount |-> IF kind = "reduction-to-sea" THEN affectedCount ELSE 0]

generateRecommendation(targetTransport, sourceTransport, percentChange, affectedCount) ==
    LET isImprovement == LtZero(percentChange)
        kind ==
            IF isImprovement
            THEN (IF targetTransport = "sea" THEN "reduction-to-sea"
                  ELSE IF targetTransport = "land" THEN "reduction-to-land"
                  ELSE "generic-reduction")
            ELSE (IF targetTransport = "air" THEN "increase-to-air"
                  ELSE "generic-increase")
    IN  [kind |-> kind, percentChange |-> percentChange,
         affectedCount |-> IF kind = "reduction-to-sea" THEN affectedCount ELSE 0]

(***************************************************************************)
(* Calculate scenario impact when transport type changes.                  *)
(***************************************************************************)
\* A filter that does not look at the source mode once a route id is given.
filterByPrecedence(ls, sourceTransport, specificRouteId) ==
    LET keep(log) ==
            IF Truthy(specificRouteId) THEN log.id = specificRouteId
            ELSE IF Truthy(sourceTransport) /\ sourceTransport # "all"
            THEN log.transport_type = sourceTransport
            ELSE TRUE
    IN  SelectSeq(ls, keep)

\* Identify affected routes: the filter.
filterAffected(ls, sourceTransport, specificRouteId) ==
    LET keep(log) ==
            IF Truthy(specificRouteId) /\ log.id # specificRouteId THEN FALSE
            ELSE IF Truthy(sourceTransport) /\ sourceTransport # "all"
                    /\ log.transport_type # sourceTransport THEN FALSE
            ELSE TRUE
    IN  SelectSeq(ls, keep)

\* Affected routes without the default to all.
affectedRoutesNoDefault(ls, sourceTransport, specificRouteId) ==
    LET keep(log) ==
            /\ ~(Truthy(specificRouteId) /\ log.id # specificRouteId)
            /\ ~(Truthy(sourceTransport) /\ sourceTransport # "all"
                    /\ log.transport_type # sourceTransport)
    IN  SelectSeq(ls, keep)

\* Identify affected routes: the filter, defaulting to all if no match.
affectedRoutesOf(ls, sourceTransport, specificRouteId) ==
    LET filtered == filterAffected(ls, sourceTransport, specificRouteId)
    IN  IF Len(filtered) = 0 THEN ls ELSE filtered

\* A substitution that forgets to take the affected records' own emissions
\* out of the total.
substitutionKeepingOriginal(affectedRoutes, currentEmissions, targetTransport) ==
    currentEmissions +
        SumSeq([i \in 1..Len(affectedRoutes) |->
            affectedRoutes[i].weight_kg
                * getDistance(affectedRoutes[i].origin, affectedRoutes[i].destination)
                * EMISSION_FACTORS[targetTransport]])

\* Calculate preview emissions with new transport: the target given.
substitutionEmissions(affectedRoutes, currentEmissions, targetTransport) ==
    LET affectedEmissions ==
            SumSeq([i \in 1..Len(affectedRoutes) |->
                LET log == affectedRoutes[i]
                    distance == getDistance(log.origin, log.destination)
                    newFactor == EMISSION_FACTORS[targetTransport]
                IN  log.weight_kg * distance * newFactor])
        originalAffectedEmissions ==
            SumSeq([i \in 1..Len(affectedRoutes) |->
                LET log == affectedRoutes[i]
                    distance == getDistance(log.origin, log.destination)
                    factor == EMISSION_FACTORS[log.transport_type]
                IN  log.weight_kg * distance * factor])
        unaffectedEmissions == currentEmissions - originalAffectedEmissions
    IN  unaffectedEmissions + affectedEmissions

\* An optimization that leaves out the routes it does not affect.
blanketAffectedOnly(ls, affectedRoutes) ==
    SumSeq([i \in 1..Len(affectedRoutes) |->
        affectedRoutes[i].weight_kg
            * getDistance(affectedRoutes[i].origin, affectedRoutes[i].destination)
            * EMISSION_FACTORS.sea])

\* An optimization that applies the air factor instead of the sea factor.
blanketAtAirFactor(ls, affectedRoutes) ==
    LET optimized ==
            SumSeq([i \in 1..Len(affectedRoutes) |->
                affectedRoutes[i].weight_kg
                    * getDistance(affectedRoutes[i].origin, affectedRoutes[i].destination)
                    * EMISSION_FACTORS.air])
        isUnaffected(log) ==
            ~ \E j \in 1..Len(affectedRoutes) : affectedRoutes[j].id = log.id
        unaffected == SelectSeq(ls, isUnaffected)
    IN  optimized +
            SumSeq([i \in 1..Len(unaffected) |->
                unaffected[i].weight_kg
                    * getDistance(unaffected[i].origin, unaffected[i].destination)
                    * EMISSION_FACTORS[unaffected[i].transport_type]])

\* Calculate preview emissions: no target and source "all" (optimize all
\* routes with the sea factor, then add the unaffected routes).
blanketEmissions(ls, affectedRoutes) ==
    LET optimized ==
            SumSeq([i \in 1..Len(affectedRoutes) |->
                LET log == affectedRoutes[i]
                    distance == getDistance(log.origin, log.destination)
                    factor == EMISSION_FACTORS.sea
                IN  log.weight_kg * distance * factor])
        isUnaffected(log) ==
            ~ \E j \in 1..Len(affectedRoutes) : affectedRoutes[j].id = log.id
        unaffected == SelectSeq(ls, isUnaffected)
        unaffectedTotal ==
            SumSeq([i \in 1..Len(unaffected) |->
                LET log == unaffected[i]
                    distance == getDistance(log.origin, log.destination)
                    factor == EMISSION_FACTORS[log.transport_type]
                IN  log.weight_kg * distance * factor])
    IN  optimized + unaffectedTotal

\* Calculate preview emissions with new transport.
previewEmissionsOf(ls, affectedRoutes, currentEmissions, sourceTransport, targetTransport) ==
    IF Truthy(targetTransport)
    THEN substitutionEmissions(affectedRoutes, currentEmissions, targetTransport)
    ELSE IF sourceTransport = "all"
    THEN blanketEmissions(ls, affectedRoutes)
    ELSE currentEmissions

\* A delta taken the wrong way round.
deltaReversed(previewEmissions, currentEmissions) == currentEmissions - previewEmissions

\* Calculate delta and percentage change.
deltaOf(previewEmissions, currentEmissions) == previewEmissions - currentEmissions

percentChangeOf(delta, currentEmissions) == Percent(delta, currentEmissions)

\* Normalize to carbon score (0-100): 100 - (preview / max) * 100, which is
\* 100 * (max - preview) / max when max is not zero and NaN when it is.
previewScoreOf(currentEmissions, previewEmissions) ==
    LET maxEmissions == Max(currentEmissions, previewEmissions)
    IN  IF maxEmissions = 0 THEN NaN
        ELSE [tag |-> "num", num |-> maxEmissions - previewEmissions, den |-> maxEmissions]

\* Build affected routes list: one summary per affected record.  A summary
\* holds what its text is made of: the record id, the percent change before
\* it is rendered to one decimal, and the directional word.
affectedRoutesListOf(affectedRoutes, targetTransport) ==
    [i \in 1..Len(affectedRoutes) |->
        LET log == affectedRoutes[i]
            distance == getDistance(log.origin, log.destination)
            currentFactor == EMISSION_FACTORS[log.transport_type]
            currentEmis == log.weight_kg * distance * currentFactor
            newEmis ==
                IF Truthy(targetTransport)
                THEN log.weight_kg * distance * EMISSION_FACTORS[targetTransport]
                ELSE currentEmis
            delta == newEmis - currentEmis
        IN  [id |-> log.id, percent |-> Percent(delta, currentEmis),
             word |-> IF delta > 0 THEN "increase" ELSE "reduction"]]

calculateScenarioImpact(ls, sourceTransport, targetTransport, specificRouteId) ==
    LET currentEmissions == calculateTotalEmissions(ls)
        affectedRoutes == affectedRoutesOf(ls, sourceTransport, specificRouteId)
        previewEmissions ==
            previewEmissionsOf(ls, affectedRoutes, currentEmissions,
                               sourceTransport, targetTransport)
        delta == deltaOf(previewEmissions, currentEmissions)
        percentChange == percentChangeOf(delta, currentEmissions)
        previewScore == previewScoreOf(currentEmissions, previewEmissions)
    IN  [originalEmissions |-> currentEmissions,
         previewEmissions |-> previewEmissions,
         delta |-> delta,
         percentChange |-> percentChange,
         previewScore |-> previewScore,
         affectedRoutes |-> affectedRoutesListOf(affectedRoutes, targetTransport),
         recommendation |->
             generateRecommendation(targetTransport, sourceTransport, percentChange,
                                    Len(affectedRoutes))]

(***************************************************************************)
(* Get transport-specific insights: one pass over the logs, accumulating   *)
(* count, weight and emissions per transport type.                         *)
(***************************************************************************)
\* A pass that overwrites the weight of a transport type instead of adding
\* to it.
RECURSIVE insightsOverwritingWeight(_, _)
insightsOverwritingWeight(ls, byTransport) ==
    IF ls = <<>> THEN byTransport
    ELSE LET log == Head(ls)
             emissions == log.weight_kg * getDistance(log.origin, log.destination)
                              * EMISSION_FACTORS[log.transport_type]
         IN  insightsOverwritingWeight(Tail(ls),
                 [byTransport EXCEPT ![log.transport_type] =
                     [count |-> @.count + 1,
                      weight |-> log.weight_kg,
                      emissions |-> @.emissions + emissions]])

RECURSIVE insightsForEach(_, _)
insightsForEach(ls, byTransport) ==
    IF ls = <<>> THEN byTransport
    ELSE LET log == Head(ls)
             distance == getDistance(log.origin, log.destination)
             factor == EMISSION_FACTORS[log.transport_type]
             emissions == log.weight_kg * distance * factor
         IN  insightsForEach(Tail(ls),
                 [byTransport EXCEPT ![log.transport_type] =
                     [count |-> @.count + 1,
                      weight |-> @.weight + log.weight_kg,
                      emissions |-> @.emissions + emissions]])

getTransportInsights(ls) ==
    insightsForEach(ls,
        [air |-> [count |-> 0, weight |-> 0, emissions |-> 0],
         sea |-> [count |-> 0, weight |-> 0, emissions |-> 0],
         land |-> [count |-> 0, weight |-> 0, emissions |-> 0]])

(***************************************************************************)
(* Identify high-impact optimization opportunities.                        *)
(***************************************************************************)
\* Object.entries(EMISSION_FACTORS): the modes in the order of the literal.
FactorEntries == <<"air", "sea", "land">>

\* A search that compares every alternative with the current emissions, not
\* with the lowest found so far: the last lower alternative wins.
RECURSIVE lastLowerAlternative(_, _, _, _)
lastLowerAlternative(log, distance, entries, lowestEmissions) ==
    IF entries = <<>> THEN lowestEmissions
    ELSE LET transport == entries[Len(entries)]
             altEmissions == log.weight_kg * distance * EMISSION_FACTORS[transport]
         IN  IF transport # log.transport_type /\ altEmissions < lowestEmissions
             THEN altEmissions
             ELSE lastLowerAlternative(log, distance,
                      SubSeq(entries, 1, Len(entries) - 1), lowestEmissions)

\* Find best alternative: the lowest emissions over the other modes, when
\* lower than the current ones.
RECURSIVE lowestAlternative(_, _, _, _)
lowestAlternative(log, distance, entries, lowestEmissions) ==
    IF entries = <<>> THEN lowestEmissions
    ELSE LET transport == Head(entries)
             altEmissions == log.weight_kg * distance * EMISSION_FACTORS[transport]
         IN  IF transport = log.transport_type
             THEN lowestAlternative(log, distance, Tail(entries), lowestEmissions)
             ELSE lowestAlternative(log, distance, Tail(entries),
                      IF altEmissions < lowestEmissions THEN altEmissions
                      ELSE lowestEmissions)

opportunityOf(log) ==
    LET distance == getDistance(log.origin, log.destination)
        currentFactor == EMISSION_FACTORS[log.transport_type]
        currentEmissions == log.weight_kg * distance * currentFactor
        lowestEmissions == lowestAlternative(log, distance, FactorEntries, currentEmissions)
        savings == currentEmissions - lowestEmissions
    IN  [route |-> log, savings |-> savings,
         savingsPercent |-> Percent(savings, currentEmissions)]

\* A sort with the comparator the wrong way round: ascending by savings.
RECURSIVE insertAscending(_, _)
insertAscending(opp, sorted) ==
    IF sorted = <<>> THEN <<opp>>
    ELSE IF Head(sorted).savings <= opp.savings
         THEN <<Head(sorted)>> \o insertAscending(opp, Tail(sorted))
         ELSE <<opp>> \o sorted

\* Array.prototype.sort with the comparator (a, b) => b.savings - a.savings:
\* a stable sort, descending by savings.
RECURSIVE insertBySavings(_, _)
insertBySavings(opp, sorted) ==
    IF sorted = <<>> THEN <<opp>>
    ELSE IF Head(sorted).savings >= opp.savings
         THEN <<Head(sorted)>> \o insertBySavings(opp, Tail(sorted))
         ELSE <<opp>> \o sorted

RECURSIVE sortBySavings(_)
sortBySavings(opps) ==
    IF opps = <<>> THEN <<>>
    ELSE insertBySavings(opps[Len(opps)], sortBySavings(SubSeq(opps, 1, Len(opps) - 1)))

findOptimizationOpportunities(ls) ==
    LET mapped == [i \in 1..Len(ls) |-> opportunityOf(ls[i])]
        positive(opp) == opp.savings > 0
    IN  sortBySavings(SelectSeq(mapped, positive))

\* A sort applied to the caller's array itself, which reorders the records
\* by the savings of each.
arraysSortingCaller(ls) ==
    LET sortedAll == sortBySavings([i \in 1..Len(ls) |-> opportunityOf(ls[i])])
    IN  [logs |-> [i \in 1..Len(ls) |-> sortedAll[i].route],
         returned |-> findOptimizationOpportunities(ls)]

\* The arrays held when findOptimizationOpportunities returns. map and filter
\* each build a new array and sort reorders, in place, the array that filter
\* built: the caller's array is only read.
arraysAfterOpportunities(ls) ==
    [logs |-> ls, returned |-> findOptimizationOpportunities(ls)]

\* logs: the caller's record sequence; call: the engine function called last
\* with its arguments; ret: what it returned, a record with one field named
\* after the kind of value (total, distance, scenario, insights,
\* opportunities), or [none |-> TRUE] when no result is held; ui: the state
\* of the React components of the dashboard, NoComponent where the engine is
\* called without a page around it.
VARIABLES logs, call, ret, ui

vars == <<logs, call, ret, ui>>

NoComponent == [mounted |-> FALSE]

\* The caller holds no result: the next call of the engine can be made.
Idle == call.op = "none"

Init ==
    /\ logs \in LogSets
    /\ call = [op |-> "none"]
    /\ ret = [none |-> TRUE]
    /\ ui = NoComponent

\* calculateTotalEmissions(logs)
TotalEmissions ==
    /\ Idle
    /\ call' = [op |-> "calculateTotalEmissions"]
    /\ ret' = [total |-> calculateTotalEmissions(logs)]
    /\ UNCHANGED <<logs, ui>>

\* getDistance(origin, destination)
Distance ==
    /\ Idle
    /\ \E origin \in Locations, destination \in Locations :
        /\ call' = [op |-> "getDistance", origin |-> origin, destination |-> destination]
        /\ ret' = [distance |-> getDistance(origin, destination)]
    /\ UNCHANGED <<logs, ui>>

\* calculateScenarioImpact(logs, sourceTransport, targetTransport, specificRouteId)
Simulate ==
    /\ Idle
    /\ \E source \in SourceArgs, target \in TargetArgs, routeId \in RouteIdArgs :
        /\ call' = [op |-> "calculateScenarioImpact", sourceTransport |-> source,
                    targetTransport |-> target, specificRouteId |-> routeId]
        /\ ret' = [scenario |-> calculateScenarioImpact(logs, source, target, routeId)]
    /\ UNCHANGED <<logs, ui>>

\* getTransportInsights(logs)
Insights ==
    /\ Idle
    /\ call' = [op |-> "getTransportInsights"]
    /\ ret' = [insights |-> getTransportInsights(logs)]
    /\ UNCHANGED <<logs, ui>>

\* findOptimizationOpportunities(logs)
Opportunities ==
    /\ Idle
    /\ call' = [op |-> "findOptimizationOpportunities"]
    /\ ret' = [opportunities |-> arraysAfterOpportunities(logs).returned]
    /\ logs' = arraysAfterOpportunities(logs).logs
    /\ UNCHANGED ui

\* The caller has taken the result of the last call.
Return ==
    /\ ~Idle
    /\ call' = [op |-> "none"]
    /\ ret' = [none |-> TRUE]
    /\ UNCHANGED <<logs, ui>>

Next ==
    \/ TotalEmissions
    \/ Distance
    \/ Simulate
    \/ Insights
    \/ Opportunities
    \/ Return

Spec == Init /\ [][Next]_vars

(***************************************************************************)
(* The engine on a record whose transport_type has no entry in             *)
(* EMISSION_FACTORS. The lookup yields undefined, a product with undefined *)
(* is NaN, NaN spreads through sums and differences, and every comparison  *)
(* with NaN is false. A number is held as [tag, val].                      *)
(***************************************************************************)
UnknownTransport == "rail"

Num(n) == [tag |-> "num", val |-> n]
NotANumber == [tag |-> "NaN", val |-> 0]
Plus(a, b) == IF a.tag = "NaN" \/ b.tag = "NaN" THEN NotANumber ELSE Num(a.val + b.val)
Minus(a, b) == IF a.tag = "NaN" \/ b.tag = "NaN" THEN NotANumber ELSE Num(a.val - b.val)

RECURSIVE reduceEmissions(_)
reduceEmissions(terms) ==
    IF terms = <<>> THEN Num(0)
    ELSE Plus(reduceEmissions(SubSeq(terms, 1, Len(terms) - 1)), terms[Len(terms)])

\* EMISSION_FACTORS[transport] is a number
HasFactor(transport) == transport \in DOMAIN EMISSION_FACTORS

\* log.weight_kg * distance * EMISSION_FACTORS[transport]
emissionsAtFactorOf(log, transport) ==
    IF HasFactor(transport)
    THEN Num(log.weight_kg * getDistance(log.origin, log.destination)
                 * EMISSION_FACTORS[transport])
    ELSE NotANumber

\* One record of the unknown type at each position.
UnknownRecordsAt(i) ==
    { [id |-> RecordIds[i], origin |-> "Tokyo, Japan", destination |-> "New York, USA",
       weight_kg |-> 1, transport_type |-> UnknownTransport] }

RECURSIVE ConfigLogsOfLen(_)
ConfigLogsOfLen(n) ==
    IF n = 0 THEN { <<>> }
    ELSE { Append(ls, r) : ls \in ConfigLogsOfLen(n - 1),
                           r \in RecordsAt(n) \cup UnknownRecordsAt(n) }

\* The record sequences that hold a record of the unknown type.
ConfigLogSets ==
    { ls \in UNION { ConfigLogsOfLen(n) : n \in 1..MaxLogs } :
        \E i \in 1..Len(ls) : ~HasFactor(ls[i].transport_type) }

\* calculateTotalEmissions: the reduce goes through; the sum is NaN.
totalWithUndefinedFactor(ls) ==
    [outcome |-> "returned",
     value |-> reduceEmissions([i \in 1..Len(ls) |->
                   emissionsAtFactorOf(ls[i], ls[i].transport_type)])]

\* calculateScenarioImpact: nothing throws; the figures are NaN wherever a
\* record of the unknown type enters the sum.
scenarioWithUndefinedFactor(ls, sourceTransport, targetTransport, specificRouteId) ==
    LET affectedRoutes == affectedRoutesOf(ls, sourceTransport, specificRouteId)
        own(rs) == reduceEmissions([i \in 1..Len(rs) |->
                       emissionsAtFactorOf(rs[i], rs[i].transport_type)])
        at(rs, transport) == reduceEmissions([i \in 1..Len(rs) |->
                                 emissionsAtFactorOf(rs[i], transport)])
        isUnaffected(log) ==
            ~ \E j \in 1..Len(affectedRoutes) : affectedRoutes[j].id = log.id
        currentEmissions == own(ls)
        previewEmissions ==
            IF Truthy(targetTransport)
            THEN Plus(Minus(currentEmissions, own(affectedRoutes)),
                      at(affectedRoutes, targetTransport))
            ELSE IF sourceTransport = "all"
            THEN Plus(at(affectedRoutes, "sea"), own(SelectSeq(ls, isUnaffected)))
            ELSE currentEmissions
    IN  [outcome |-> "returned",
         value |-> [currentEmissions |-> currentEmissions,
                    previewEmissions |-> previewEmissions,
                    delta |-> Minus(previewEmissions, currentEmissions),
                    affectedCount |-> Len(affectedRoutes)]]

\* getTransportInsights: byTransport has the keys air, sea and land only, so
\* byTransport[log.transport_type].count throws a TypeError at the first
\* record of another type.
insightsWithUndefinedFactor(ls) ==
    IF \E i \in 1..Len(ls) : ls[i].transport_type \notin {"air", "sea", "land"}
    THEN [outcome |-> "TypeError", value |-> <<>>]
    ELSE [outcome |-> "returned", value |-> getTransportInsights(ls)]

\* findOptimizationOpportunities: the savings of a record of the unknown type
\* are NaN, NaN > 0 is false, and the filter drops the record; the other
\* records are treated as ever.
opportunitiesWithUndefinedFactor(ls) ==
    LET positive(log) ==
            HasFactor(log.transport_type) /\ opportunityOf(log).savings > 0
        kept == SelectSeq(ls, positive)
    IN  [outcome |-> "returned",
         value |-> sortBySavings([i \in 1..Len(kept) |-> opportunityOf(kept[i])])]

InitConfig ==
    /\ logs \in ConfigLogSets
    /\ call = [op |-> "none"]
    /\ ret = [none |-> TRUE]
    /\ ui = NoComponent

TotalEmissionsConfig ==
    /\ Idle
    /\ call' = [op |-> "calculateTotalEmissions"]
    /\ ret' = [total |-> totalWithUndefinedFactor(logs)]
    /\ UNCHANGED <<logs, ui>>

SimulateConfig ==
    /\ Idle
    /\ \E source \in SourceArgs, target \in TargetArgs, routeId \in RouteIdArgs :
        /\ call' = [op |-> "calculateScenarioImpact", sourceTransport |-> source,
                    targetTransport |-> target, specificRouteId |-> routeId]
        /\ ret' = [scenario |-> scenarioWithUndefinedFactor(logs, source, target, routeId)]
    /\ UNCHANGED <<logs, ui>>

InsightsConfig ==
    /\ Idle
    /\ call' = [op |-> "getTransportInsights"]
    /\ ret' = [insights |-> insightsWithUndefinedFactor(logs)]
    /\ UNCHANGED <<logs, ui>>

OpportunitiesConfig ==
    /\ Idle
    /\ call' = [op |-> "findOptimizationOpportunities"]
    /\ ret' = [opportunities |-> opportunitiesWithUndefinedFactor(logs)]
    /\ UNCHANGED <<logs, ui>>

NextConfig ==
    \/ TotalEmissionsConfig
    \/ SimulateConfig
    \/ InsightsConfig
    \/ OpportunitiesConfig
    \/ Return

SpecConfig == InitConfig /\ [][NextConfig]_vars

(***************************************************************************)
(* detectAndCalculateScenario: what-if pattern detection and the parsing   *)
(* of the scenario intent, on the characters of the text.                  *)
(***************************************************************************)
MaxWords == 3

\* What a user may type: words with a trigger, with a mode, with a route
\* reference, and words that hold a mode or "all" or "to" inside them.
Vocabulary ==
    <<"What if", "switch", "to", "all", "air", "sea", "land", "reduce",
      "route", "SC002", "tomorrow", "small">>

RECURSIVE TextsOfWords(_)
TextsOfWords(n) ==
    IF n = 1 THEN { Vocabulary[w] : w \in 1..Len(Vocabulary) }
    ELSE { t \o " " \o Vocabulary[w] :
             t \in TextsOfWords(n - 1), w \in 1..Len(Vocabulary) }

UserInputs == {""} \cup UNION { TextsOfWords(n) : n \in 1..MaxWords }

UpperCaseLetters == "ABCDEFGHIJKLMNOPQRSTUVWXYZ"
LowerCaseLetters == "abcdefghijklmnopqrstuvwxyz"
WordCharacters == "abcdefghijklmnopqrstuvwxyz0123456789_ABCDEFGHIJKLMNOPQRSTUVWXYZ"

CharAt(text, i) == SubSeq(text, i, i)

\* The lower-case letter of each upper-case letter.
LowerCaseOf ==
    [c \in { CharAt(UpperCaseLetters, k) : k \in 1..Len(UpperCaseLetters) } |->
        CharAt(LowerCaseLetters,
               CHOOSE k \in 1..Len(UpperCaseLetters) : CharAt(UpperCaseLetters, k) = c)]

\* String.prototype.toLowerCase
RECURSIVE toLowerCase(_)
toLowerCase(text) ==
    IF text = "" THEN ""
    ELSE LET c == CharAt(text, 1)
         IN  (IF c \in DOMAIN LowerCaseOf THEN LowerCaseOf[c] ELSE c)
                 \o toLowerCase(SubSeq(text, 2, Len(text)))

\* text has pattern at position i
At(text, pattern, i) ==
    /\ i >= 1 /\ i + Len(pattern) - 1 <= Len(text)
    /\ SubSeq(text, i, i + Len(pattern) - 1) = pattern

\* String.prototype.includes
includes(text, pattern) == \E i \in 1..Len(text) : At(text, pattern, i)

\* /first.*second/ on a text of one line
testThen(text, first, second) ==
    \E i \in 1..Len(text) :
        /\ At(text, first, i)
        /\ \E j \in (i + Len(first))..Len(text) : At(text, second, j)

\* A detection that leaves out the third pattern, the verbs.
isWhatIfWithoutVerbs(input) ==
    \/ includes(input, "what if") \/ testThen(input, "switch", "to")
    \/ testThen(input, "change", "to") \/ testThen(input, "replace", "with")
    \/ testThen(input, "convert", "to")
    \/ testThen(input, "all", "air") \/ testThen(input, "all", "sea")
    \/ testThen(input, "all", "land")

\* whatIfPatterns.some((pattern) => pattern.test(input))
isWhatIf(input) ==
    \/ includes(input, "what if") \/ testThen(input, "switch", "to")
    \/ testThen(input, "change", "to") \/ testThen(input, "replace", "with")
    \/ testThen(input, "convert", "to")
    \/ testThen(input, "all", "air") \/ testThen(input, "all", "sea")
    \/ testThen(input, "all", "land")
    \/ includes(input, "eliminate") \/ includes(input, "reduce")
    \/ includes(input, "improve")

sourceTransportOf(input) ==
    IF includes(input, "land") /\ ~includes(input, "to land") THEN "land"
    ELSE IF includes(input, "air") THEN "air"
    ELSE Null

targetTransportOf(input) ==
    IF includes(input, "land") /\ includes(input, "to land") THEN "land"
    ELSE IF includes(input, "sea") /\ ~includes(input, "sea to") THEN "sea"
    ELSE Null

IsWordCharacter(c) == \E k \in 1..Len(WordCharacters) : CharAt(WordCharacters, k) = c

\* The end of the run of word characters that starts at position i.
RECURSIVE wordEnd(_, _)
wordEnd(text, i) ==
    IF i < Len(text) /\ IsWordCharacter(CharAt(text, i + 1))
    THEN wordEnd(text, i + 1) ELSE i

\* The first position at or after i that holds no white space.
RECURSIVE skipSpaces(_, _)
skipSpaces(text, i) ==
    IF i <= Len(text) /\ CharAt(text, i) = " " THEN skipSpaces(text, i + 1) ELSE i

\* keyword\s+(\w+) matched at position i: the captured group, or Null.
captureAt(text, keyword, i) ==
    LET afterKeyword == i + Len(keyword)
        start == skipSpaces(text, afterKeyword)
    IN  IF /\ At(text, keyword, i)
           /\ start > afterKeyword
           /\ start <= Len(text)
           /\ IsWordCharacter(CharAt(text, start))
        THEN SubSeq(text, start, wordEnd(text, start))
        ELSE Null

\* input.match(/route\s+(\w+)|shipment\s+(\w+)/i): routeMatch?.[1] ||
\* routeMatch?.[2] of the leftmost match, Null (undefined) without one.
routeIdOf(input) ==
    LET capture(i) ==
            IF captureAt(input, "route", i) # Null THEN captureAt(input, "route", i)
            ELSE captureAt(input, "shipment", i)
        matches == { i \in 1..Len(input) : capture(i) # Null }
    IN  IF matches = {} THEN Null
        ELSE capture(CHOOSE i \in matches : \A j \in matches : i <= j)

\* The text in lower case, the request handed to calculateScenarioImpact and
\* the scenario returned; null without a trigger. calculateScenarioImpact
\* does not throw on records of the three transport types, so the catch is
\* not entered.
detectAndCalculateScenario(userInput, ls) ==
    LET input == toLowerCase(userInput)
    IN  IF ~isWhatIf(input) THEN [isNull |-> TRUE, input |-> input]
        ELSE LET request == [sourceTransport |-> sourceTransportOf(input),
                             targetTransport |-> targetTransportOf(input),
                             specificRouteId |-> routeIdOf(input)]
             IN  [isNull |-> FALSE,
                  input |-> input,
                  request |-> request,
                  scenario |-> calculateScenarioImpact(ls, request.sourceTransport,
                                   request.targetTransport, request.specificRouteId)]

\* The records the consultant holds: none before the first load, then the
\* loaded ones.
IntentLogSets ==
    { <<>>,
      <<[id |-> RecordIds[1], origin |-> "Tokyo, Japan", destination |-> "New York, USA",
         weight_kg |-> 1, transport_type |-> "air"],
        [id |-> RecordIds[2], origin |-> "Paris, France", destination |-> "Berlin, Germany",
         weight_kg |-> 1, transport_type |-> "land"]>> }

InitIntent ==
    /\ logs \in IntentLogSets
    /\ call = [op |-> "none"]
    /\ ret = [none |-> TRUE]
    /\ ui = NoComponent

\* handleUserMessage: the user's text goes to detectAndCalculateScenario.
Detect ==
    /\ Idle
    /\ \E userInput \in UserInputs :
        /\ call' = [op |-> "detectAndCalculateScenario", userInput |-> userInput]
        /\ ret' = [detected |-> detectAndCalculateScenario(userInput, logs)]
    /\ UNCHANGED <<logs, ui>>

NextIntent ==
    \/ Detect
    \/ Return

SpecIntent == InitIntent /\ [][NextIntent]_vars

(***************************************************************************)
(* The engine on the provider's records (simulateSupplyChainRecords).      *)
(* Their weights are thousands of kilograms, so an emission figure is held *)
(* in units of 10^-4 kg here: (weight_kg * distance * factor) / 1000 is    *)
(* (weight_kg * distance / 1000) * factor-times-10^4, the division being   *)
(* exact because every weight is a multiple of 100 and every distance a    *)
(* multiple of 10.                                                         *)
(***************************************************************************)
ProviderRecords ==
    << [id |-> "SC001", origin |-> "Shanghai, China", destination |-> "Los Angeles, USA",
        weight_kg |-> 15000, transport_type |-> "sea"],
       [id |-> "SC002", origin |-> "Tokyo, Japan", destination |-> "New York, USA",
        weight_kg |-> 8500, transport_type |-> "air"],
       [id |-> "SC003", origin |-> "Berlin, Germany", destination |-> "Paris, France",
        weight_kg |-> 2200, transport_type |-> "land"],
       [id |-> "SC004", origin |-> "Singapore, Singapore", destination |-> "Dubai, UAE",
        weight_kg |-> 12000, transport_type |-> "sea"],
       [id |-> "SC005", origin |-> "Mumbai, India", destination |-> "London, UK",
        weight_kg |-> 5600, transport_type |-> "air"],
       [id |-> "SC006", origin |-> "Mexico City, Mexico", destination |-> "Toronto, Canada",
        weight_kg |-> 3400, transport_type |-> "land"],
       [id |-> "SC007", origin |-> "Rotterdam, Netherlands", destination |-> "Hamburg, Germany",
        weight_kg |-> 18500, transport_type |-> "sea"] >>

\* The record sequences of the reference runs: the first records of the
\* provider's list.
ReferenceLogSets == { SubSeq(ProviderRecords, 1, n) : n \in 0..Len(ProviderRecords) }

ReferenceRouteIdArgs ==
    { ProviderRecords[i].id : i \in 1..Len(ProviderRecords) } \cup {UnknownId, Null}

\* Emissions computed at the default distance for every route.
referenceEmissionsAtDefaultDistance(log, transport) ==
    ((log.weight_kg * DefaultDistance) \div 1000) * EMISSION_FACTORS[transport]

\* (log.weight_kg * distance * factor) / 1000 at the factor of a transport
\* type.
referenceEmissionsOf(log, transport) ==
    ((log.weight_kg * getDistance(log.origin, log.destination)) \div 1000)
        * EMISSION_FACTORS[transport]

referenceTotalEmissions(ls) ==
    SumSeq([i \in 1..Len(ls) |-> referenceEmissionsOf(ls[i], ls[i].transport_type)])

referenceScenarioImpact(ls, sourceTransport, targetTransport, specificRouteId) ==
    LET currentEmissions == referenceTotalEmissions(ls)
        affectedRoutes == affectedRoutesOf(ls, sourceTransport, specificRouteId)
        isUnaffected(log) ==
            ~ \E j \in 1..Len(affectedRoutes) : affectedRoutes[j].id = log.id
        previewEmissions ==
            IF Truthy(targetTransport)
            THEN LET affectedEmissions ==
                         SumSeq([i \in 1..Len(affectedRoutes) |->
                             referenceEmissionsOf(affectedRoutes[i], targetTransport)])
                     originalAffectedEmissions == referenceTotalEmissions(affectedRoutes)
                 IN  (currentEmissions - originalAffectedEmissions) + affectedEmissions
            ELSE IF sourceTransport = "all"
            THEN SumSeq([i \in 1..Len(affectedRoutes) |->
                     referenceEmissionsOf(affectedRoutes[i], "sea")])
                     + referenceTotalEmissions(SelectSeq(ls, isUnaffected))
            ELSE currentEmissions
        delta == deltaOf(previewEmissions, currentEmissions)
        percentChange == percentChangeOf(delta, currentEmissions)
    IN  [originalEmissions |-> currentEmissions,
         previewEmissions |-> previewEmissions,
         delta |-> delta,
         percentChange |-> percentChange,
         previewScore |-> previewScoreOf(currentEmissions, previewEmissions),
         affectedRoutes |-> [i \in 1..Len(affectedRoutes) |-> [id |-> affectedRoutes[i].id]],
         recommendation |->
             generateRecommendation(targetTransport, sourceTransport, percentChange,
                                    Len(affectedRoutes))]

InitReference ==
    /\ logs \in ReferenceLogSets
    /\ call = [op |-> "none"]
    /\ ret = [none |-> TRUE]
    /\ ui = NoComponent

SimulateReference ==
    /\ Idle
    /\ \E source \in SourceArgs, target \in TargetArgs, routeId \in ReferenceRouteIdArgs :
        /\ call' = [op |-> "calculateScenarioImpact", sourceTransport |-> source,
                    targetTransport |-> target, specificRouteId |-> routeId]
        /\ ret' = [scenario |-> referenceScenarioImpact(logs, source, target, routeId)]
    /\ UNCHANGED <<logs, ui>>

NextReference ==
    \/ SimulateReference
    \/ Return

SpecReference == InitReference /\ [][NextReference]_vars

(***************************************************************************)
(* The record provider: the server's get_supply_chain_records over its     *)
(* database, and the dashboard's simulated client over its own records.    *)
(* logs holds the records of the server's database.                        *)
(***************************************************************************)
DefaultLimit == 100

\* An optional numeric argument: absent, or given with a value.
Absent == [given |-> FALSE, value |-> 0]
Given(n) == [given |-> TRUE, value |-> n]

LimitArgs == {Absent} \cup { Given(n) : n \in 0..MaxLogs }

\* Array.prototype.slice(0, n) for n >= 0
sliceFromStart(records, n) ==
    SubSeq(records, 1, IF n < Len(records) THEN n ELSE Len(records))

\* db.getRecordById as a list: the first record of the id, or nothing.
getRecordById(db, id) ==
    LET found == SelectSeq(db, LAMBDA r : r.id = id)
    IN  IF found = <<>> THEN <<>> ELSE <<Head(found)>>

getRecordsByTransportType(db, type) == SelectSeq(db, LAMBDA r : r.transport_type = type)

\* The server's handler. input.limit || 100: an absent limit and a limit of 0
\* are both falsy.
getSupplyChainRecords(db, record_id, transport_type, limitArg) ==
    LET records ==
            IF Truthy(record_id) THEN getRecordById(db, record_id)
            ELSE IF Truthy(transport_type) THEN getRecordsByTransportType(db, transport_type)
            ELSE db
        limit == IF limitArg.given /\ limitArg.value # 0 THEN limitArg.value ELSE DefaultLimit
        limitedRecords == sliceFromStart(records, limit)
    IN  [records |-> limitedRecords,
         total_count |-> Len(records),
         returned_count |-> Len(limitedRecords)]

\* The dashboard's simulated client: its own seven records, no limit, and
\* counts of 1 whenever a record_id is given.
simulateSupplyChainRecords(record_id, transport_type) ==
    IF Truthy(record_id)
    THEN [records |-> SelectSeq(ProviderRecords, LAMBDA r : r.id = record_id),
          total_count |-> 1, returned_count |-> 1]
    ELSE IF Truthy(transport_type)
    THEN LET filtered == SelectSeq(ProviderRecords, LAMBDA r : r.transport_type = transport_type)
         IN  [records |-> filtered, total_count |-> Len(filtered),
              returned_count |-> Len(filtered)]
    ELSE [records |-> ProviderRecords, total_count |-> Len(ProviderRecords),
          returned_count |-> Len(ProviderRecords)]

ProviderIdArgs == { RecordIds[i] : i \in 1..MaxLogs } \cup {UnknownId, Null}

InitProvider ==
    /\ logs \in LogSets
    /\ call = [op |-> "none"]
    /\ ret = [none |-> TRUE]
    /\ ui = NoComponent

\* get_supply_chain_records on the server
ServerGetRecords ==
    /\ Idle
    /\ \E record_id \in ProviderIdArgs, transport_type \in TargetArgs, limit \in LimitArgs :
        /\ call' = [op |-> "getSupplyChainRecords", record_id |-> record_id,
                    transport_type |-> transport_type, limit |-> limit]
        /\ ret' = [response |-> getSupplyChainRecords(logs, record_id, transport_type, limit)]
    /\ UNCHANGED <<logs, ui>>

\* get_supply_chain_records on the simulated client
ClientGetRecords ==
    /\ Idle
    /\ \E record_id \in ProviderIdArgs, transport_type \in TargetArgs :
        /\ call' = [op |-> "simulateSupplyChainRecords", record_id |-> record_id,
                    transport_type |-> transport_type]
        /\ ret' = [response |-> simulateSupplyChainRecords(record_id, transport_type)]
    /\ UNCHANGED <<logs, ui>>

(***************************************************************************)
(* calculate_carbon_footprint, on the server (CarbonFootprintCalculator    *)
(* over the database) and on the simulated client (simulateCarbonEmissions *)
(* over its own seven records).                                            *)
(***************************************************************************)
\* routeDistances of CarbonFootprintCalculator.calculateDistance
routeDistances ==
    ("Shanghai, China-Los Angeles, USA" :> 12000) @@
    ("Tokyo, Japan-New York, USA" :> 10800) @@
    ("Berlin, Germany-Paris, France" :> 880) @@
    ("Singapore, Singapore-Dubai, UAE" :> 3600) @@
    ("Mumbai, India-London, UK" :> 7200) @@
    ("Mexico City, Mexico-Toronto, Canada" :> 2100) @@
    ("Rotterdam, Netherlands-Hamburg, Germany" :> 450)

\* distances of simulateCarbonEmissions
distances ==
    ("Shanghai, China-Los Angeles, USA" :> 12000) @@
    ("Tokyo, Japan-New York, USA" :> 10800) @@
    ("Berlin, Germany-Paris, France" :> 880) @@
    ("Singapore, Singapore-Dubai, UAE" :> 3600) @@
    ("Mumbai, India-London, UK" :> 7200) @@
    ("Mexico City, Mexico-Toronto, Canada" :> 2100) @@
    ("Rotterdam, Netherlands-Hamburg, Germany" :> 450)

\* this.emissionFactors and emissionFactors, in 10^-4 g per kg per km
emissionFactors == [air |-> 2550, sea |-> 112, land |-> 613]

\* return routeDistances[key] || 5000
calculateDistance(origin, destination) ==
    LET key == origin \o "-" \o destination
    IN  IF key \in DOMAIN routeDistances /\ routeDistances[key] # 0
        THEN routeDistances[key] ELSE 5000

\* Math.round(x * 100) / 100 of a non-negative amount x counted in units of
\* which perCent make one hundredth: the result in hundredths.
roundToCents(x, perCent) == (2 * x + perCent) \div (2 * perCent)

\* calculateEmissions: emissions in units of 10^-7 kg, the rounded figure in
\* hundredths of a kg.
calculateEmissions(record) ==
    LET distance == calculateDistance(record.origin, record.destination)
        totalEmissionsKg == record.weight_kg * distance * emissionFactors[record.transport_type]
    IN  [record_id |-> record.id,
         transport_type |-> record.transport_type,
         weight_kg |-> record.weight_kg,
         distance_km |-> distance,
         emissions |-> totalEmissionsKg,
         total_emissions_kg_co2e |-> roundToCents(totalEmissionsKg, 100000)]

\* One result of simulateCarbonEmissions: the weights of the client's records
\* are thousands of kg, so the division by 1000 comes before the factor;
\* emissions in units of 10^-4 kg, the rounded figure in hundredths of a kg.
simulatedEmissionsOf(record) ==
    LET key == record.origin \o "-" \o record.destination
        distance == IF key \in DOMAIN distances /\ distances[key] # 0
                    THEN distances[key] ELSE 5000
        emissions == ((record.weight_kg * distance) \div 1000)
                        * emissionFactors[record.transport_type]
    IN  [record_id |-> record.id,
         transport_type |-> record.transport_type,
         weight_kg |-> record.weight_kg,
         distance_km |-> distance,
         emissions |-> emissions,
         total_emissions_kg_co2e |-> roundToCents(emissions, 100)]

\* calculateAggregateEmissions, in hundredths of a kg.
calculateAggregateEmissions(results) ==
    LET cents == [i \in 1..Len(results) |-> results[i].total_emissions_kg_co2e]
        total == SumSeq(cents)
        typesSeen == { results[i].transport_type : i \in 1..Len(results) }
        ofType(t) == SelectSeq(results, LAMBDA r : r.transport_type = t)
    IN  [total_kg_co2e |-> total,
         by_transport_type |->
             [t \in typesSeen |->
                 SumSeq([i \in 1..Len(ofType(t)) |-> ofType(t)[i].total_emissions_kg_co2e])],
         average_per_shipment_kg_co2e |->
             IF Len(results) > 0 THEN roundToCents(total, Len(results)) ELSE 0]

NoIds == [given |-> FALSE, ids |-> <<>>]
Ids(list) == [given |-> TRUE, ids |-> list]

\* record_ids of a call: absent, empty, one id, or two ids.
RecordIdsArgs ==
    {NoIds, Ids(<<>>), Ids(<<RecordIds[2], RecordIds[1]>>)}
        \cup { Ids(<<id>>) : id \in ProviderIdArgs \ {Null} }

RECURSIVE recordsOfIds(_, _)
recordsOfIds(db, ids) ==
    IF ids = <<>> THEN <<>>
    ELSE getRecordById(db, ids[1]) \o recordsOfIds(db, Tail(ids))

responseOf(results, include_aggregates) ==
    IF include_aggregates
    THEN [results |-> results, record_count |-> Len(results),
          aggregates |-> calculateAggregateEmissions(results)]
    ELSE [results |-> results, record_count |-> Len(results)]

\* calculateCarbonFootprint (server)
calculateCarbonFootprint(db, record_ids, transport_type_filter, include_aggregates) ==
    LET records ==
            IF record_ids.given /\ Len(record_ids.ids) > 0
            THEN recordsOfIds(db, record_ids.ids)
            ELSE IF Truthy(transport_type_filter)
            THEN getRecordsByTransportType(db, transport_type_filter)
            ELSE db
        results == [i \in 1..Len(records) |-> calculateEmissions(records[i])]
    IN  responseOf(results, include_aggregates)

\* simulateCarbonEmissions (client)
simulateCarbonEmissions(record_ids, transport_type_filter, include_aggregates) ==
    LET byIds ==
            IF record_ids.given
            THEN SelectSeq(ProviderRecords,
                           LAMBDA r : \E k \in 1..Len(record_ids.ids) : record_ids.ids[k] = r.id)
            ELSE ProviderRecords
        filtered ==
            IF Truthy(transport_type_filter)
            THEN SelectSeq(byIds, LAMBDA r : r.transport_type = transport_type_filter)
            ELSE byIds
        results == [i \in 1..Len(filtered) |-> simulatedEmissionsOf(filtered[i])]
    IN  responseOf(results, include_aggregates)

\* calculate_carbon_footprint on the server
ServerFootprint ==
    /\ Idle
    /\ \E record_ids \in RecordIdsArgs, transport_type_filter \in TargetArgs,
          include_aggregates \in BOOLEAN :
        /\ call' = [op |-> "calculateCarbonFootprint", record_ids |-> record_ids,
                    transport_type_filter |-> transport_type_filter,
                    include_aggregates |-> include_aggregates]
        /\ ret' = [response |-> calculateCarbonFootprint(logs, record_ids,
                                    transport_type_filter, include_aggregates)]
    /\ UNCHANGED <<logs, ui>>

\* calculate_carbon_footprint on the simulated client
ClientFootprint ==
    /\ Idle
    /\ \E record_ids \in RecordIdsArgs, transport_type_filter \in TargetArgs,
          include_aggregates \in BOOLEAN :
        /\ call' = [op |-> "simulateCarbonEmissions", record_ids |-> record_ids,
                    transport_type_filter |-> transport_type_filter,
                    include_aggregates |-> include_aggregates]
        /\ ret' = [response |-> simulateCarbonEmissions(record_ids,
                                    transport_type_filter, include_aggregates)]
    /\ UNCHANGED <<logs, ui>>

NextProvider ==
    \/ ServerGetRecords
    \/ ClientGetRecords
    \/ ServerFootprint
    \/ ClientFootprint
    \/ Return

SpecProvider == InitProvider /\ [][NextProvider]_vars

(***************************************************************************)
(* The contract, stated apart from the code: per-record emissions, the     *)
(* affected records a result reports, and sums over records.               *)
(***************************************************************************)
\* emissions(record) = weight_kg x distance_km(origin, destination) x
\* emission_factor[transport_type] / 1000, in units of 10^-7 kg.
Emissions(r) ==
    r.weight_kg * getDistance(r.origin, r.destination) * EMISSION_FACTORS[r.transport_type]

\* The same record carried by another mode.
EmissionsAs(r, mode) ==
    r.weight_kg * getDistance(r.origin, r.destination) * EMISSION_FACTORS[mode]

\* The lowest emission factor among all modes of the factor table.
LowestFactor ==
    CHOOSE f \in { EMISSION_FACTORS[m] : m \in TransportTypes } :
        \A m \in TransportTypes : f <= EMISSION_FACTORS[m]

\* The ScenarioResult held by the caller after calculateScenarioImpact.
Result == ret.scenario

IsDistance == call.op = "getDistance"
IsTotal == call.op = "calculateTotalEmissions"
IsSimulate == call.op = "calculateScenarioImpact"
IsInsights == call.op = "getTransportInsights"
IsOpportunities == call.op = "findOptimizationOpportunities"

\* The ids of the affected records, in the order the result lists them.
AffectedIds == [i \in 1..Len(Result.affectedRoutes) |-> Result.affectedRoutes[i].id]

IdsOf(ls) == [i \in 1..Len(ls) |-> ls[i].id]

IsAffected(r) == \E i \in 1..Len(Result.affectedRoutes) : Result.affectedRoutes[i].id = r.id

\* Sums over the records of the caller: the affected ones and the others.
SumAffectedOwn == SumSeq([i \in 1..Len(logs) |-> IF IsAffected(logs[i]) THEN Emissions(logs[i]) ELSE 0])
SumUnaffectedOwn == SumSeq([i \in 1..Len(logs) |-> IF IsAffected(logs[i]) THEN 0 ELSE Emissions(logs[i])])
SumAffectedAs(mode) ==
    SumSeq([i \in 1..Len(logs) |-> IF IsAffected(logs[i]) THEN EmissionsAs(logs[i], mode) ELSE 0])
SumAffectedAtFactor(f) ==
    SumSeq([i \in 1..Len(logs) |->
        IF IsAffected(logs[i])
        THEN logs[i].weight_kg * getDistance(logs[i].origin, logs[i].destination) * f
        ELSE 0])
SumAll == SumSeq([i \in 1..Len(logs) |-> Emissions(logs[i])])
SumOfMode(mode) ==
    SumSeq([i \in 1..Len(logs) |->
        IF logs[i].transport_type = mode THEN Emissions(logs[i]) ELSE 0])

(***************************************************************************)
(* C1. Mode substitution: with a target mode, preview_emissions is         *)
(* (original_emissions - original_affected) + new_affected, the affected   *)
(* records counted at the target's factor and every other record at its    *)
(* actual emissions.                                                       *)
(***************************************************************************)
C1_ModeSubstitution ==
    (IsSimulate /\ call.targetTransport # Null) =>
        /\ Result.previewEmissions =
               (Result.originalEmissions - SumAffectedOwn) + SumAffectedAs(call.targetTransport)
        /\ Result.previewEmissions = SumUnaffectedOwn + SumAffectedAs(call.targetTransport)

\* A substitution that affects one record of two and changes the total.
C1_Witness ==
    /\ IsSimulate /\ call.targetTransport # Null
    /\ Len(logs) = 2 /\ Len(Result.affectedRoutes) = 1
    /\ SumUnaffectedOwn > 0
    /\ Result.previewEmissions # Result.originalEmissions

(***************************************************************************)
(* The selections of a scenario request, stated apart from the code.       *)
(***************************************************************************)
HasRouteId == call.specificRouteId # Null
HasSourceMode == call.sourceTransport \in TransportTypes

WithRouteId(r) == r.id = call.specificRouteId
WithSourceMode(r) == r.transport_type = call.sourceTransport
WithBoth(r) == (HasRouteId => WithRouteId(r)) /\ (HasSourceMode => WithSourceMode(r))

\* Strict precedence: the route id alone when present, else the source mode.
SelectedByPrecedence ==
    IF HasRouteId THEN SelectSeq(logs, WithRouteId)
    ELSE IF HasSourceMode THEN SelectSeq(logs, WithSourceMode)
    ELSE logs

\* The records that match every criterion the request carries.
SelectedByAll == SelectSeq(logs, WithBoth)

(***************************************************************************)
(* C2 as stated. Strict precedence: when a record_id is present the        *)
(* affected set is the records with that id and the source mode is not     *)
(* consulted; otherwise the records of the source mode; otherwise all.     *)
(* (Requests whose selection is empty are left to C3.)                     *)
(***************************************************************************)
C2_StrictPrecedence ==
    (IsSimulate /\ SelectedByPrecedence # <<>>) =>
        AffectedIds = IdsOf(SelectedByPrecedence)

(***************************************************************************)
(* C2 amended. The filter keeps the records that match the record_id       *)
(* (when present) and the source mode (when a mode other than "all") at    *)
(* once; the affected set is the kept records, or the entire record set    *)
(* when none is kept.                                                      *)
(***************************************************************************)
C2_ConjunctiveFilter ==
    IsSimulate =>
        AffectedIds = IdsOf(IF SelectedByAll = <<>> THEN logs ELSE SelectedByAll)

\* A request names a record and a source mode the record does not have: the
\* record alone is not the affected set.
C2_Witness ==
    /\ IsSimulate /\ HasRouteId /\ HasSourceMode
    /\ Len(logs) = 2
    /\ \E i \in 1..Len(logs) : WithRouteId(logs[i]) /\ ~WithSourceMode(logs[i])
    /\ Len(Result.affectedRoutes) = 2

(***************************************************************************)
(* C3. Empty selection is not an error: when the filter matches no record  *)
(* the affected set is the entire record set, so for a non-empty record    *)
(* set it is never empty, and a result is returned.                        *)
(***************************************************************************)
C3_EmptySelectionFallsBack ==
    IsSimulate =>
        /\ "scenario" \in DOMAIN ret
        /\ (SelectedByAll = <<>> => AffectedIds = IdsOf(logs))
        /\ (logs # <<>> => Len(Result.affectedRoutes) > 0)

\* A source mode that no record of a two-record set has.
C3_Witness ==
    /\ IsSimulate /\ ~HasRouteId /\ HasSourceMode
    /\ Len(logs) = 2
    /\ \A i \in 1..Len(logs) : ~WithSourceMode(logs[i])
    /\ Len(Result.affectedRoutes) = 2

(***************************************************************************)
(* C4. Blanket optimization (source "all", no target): preview_emissions   *)
(* is the affected records at the lowest factor of the factor table plus   *)
(* the actual emissions of every record that is not affected.              *)
(***************************************************************************)
C4_BlanketOptimization ==
    (IsSimulate /\ call.sourceTransport = "all" /\ call.targetTransport = Null) =>
        Result.previewEmissions = SumAffectedAtFactor(LowestFactor) + SumUnaffectedOwn

\* A blanket optimization restricted to one record of two, the other one
\* keeping its emissions.
C4_Witness ==
    /\ IsSimulate /\ call.sourceTransport = "all" /\ call.targetTransport = Null
    /\ Len(logs) = 2 /\ Len(Result.affectedRoutes) = 1
    /\ SumUnaffectedOwn > 0
    /\ Result.previewEmissions < Result.originalEmissions

(***************************************************************************)
(* C5. In every ScenarioResult, whatever the scenario mode,                *)
(* delta = preview_emissions - original_emissions, and original_emissions  *)
(* is the total of the records' emissions.                                 *)
(***************************************************************************)
C5_Delta ==
    IsSimulate =>
        /\ Result.delta = Result.previewEmissions - Result.originalEmissions
        /\ Result.originalEmissions = SumAll

\* A substitution that raises the emissions.
C5_Witness ==
    /\ IsSimulate /\ call.targetTransport # Null
    /\ Result.previewEmissions > Result.originalEmissions
    /\ Result.delta > 0

(***************************************************************************)
(* C6 as stated. Zero baseline is handled explicitly: when                 *)
(* original_emissions is 0, percent_change is never non-numeric; it is 0   *)
(* when delta is 0, and otherwise the call fails with an error instead of  *)
(* returning a result.                                                     *)
(***************************************************************************)
C6_ZeroBaselineHandled ==
    (IsSimulate /\ "scenario" \in DOMAIN ret /\ Result.originalEmissions = 0) =>
        /\ IsNumeric(Result.percentChange)
        /\ Result.delta = 0
        /\ Result.percentChange.num = 0

(***************************************************************************)
(* C7 as stated. For every record set, the empty one included,             *)
(* preview_score is a number in [0,100] equal to                           *)
(* 100 - (preview_emissions / max(original, preview)) x 100, and it is 0   *)
(* whenever preview_emissions >= original_emissions > 0.                   *)
(***************************************************************************)
C7_PreviewScoreInRange ==
    IsSimulate =>
        LET score == Result.previewScore
            maxEmissions == Max(Result.originalEmissions, Result.previewEmissions)
        IN  /\ IsNumeric(score)
            /\ 0 <= score.num /\ score.num <= score.den
            /\ score.den = maxEmissions
            /\ score.num = maxEmissions - Result.previewEmissions
            /\ (Result.previewEmissions >= Result.originalEmissions
                    /\ Result.originalEmissions > 0 => score.num = 0)

(***************************************************************************)
(* C8. Per-record emissions are weight_kg x distance_km(origin,            *)
(* destination) x emission_factor[transport_type] / 1000, and the total,   *)
(* the scenario baseline, the insights and the opportunities all compute a *)
(* record's current emissions by this formula with the record's own mode.  *)
(***************************************************************************)
C8_SameEmissionsFormula ==
    /\ IsTotal => ret.total = SumAll
    /\ IsSimulate => Result.originalEmissions = SumAll
    /\ IsInsights => \A mode \in TransportTypes : ret.insights[mode].emissions = SumOfMode(mode)
    /\ IsOpportunities =>
           \A i \in 1..Len(ret.opportunities) :
               LET opp == ret.opportunities[i]
               IN  /\ opp.savingsPercent = Percent(opp.savings, Emissions(opp.route))
                   /\ \E mode \in TransportTypes :
                          opp.savings = Emissions(opp.route) - EmissionsAs(opp.route, mode)

\* The total of two records, one of them on a route the table stores only
\* in the reverse direction.
C8_Witness ==
    /\ IsTotal /\ Len(logs) = 2
    /\ \E i \in 1..Len(logs) :
           (logs[i].destination \o "-" \o logs[i].origin) \in DOMAIN DISTANCE_LOOKUP
    /\ ret.total > 0

(***************************************************************************)
(* C9. Distance lookup resolves in a fixed order: the table entry of the   *)
(* ordered pair origin-destination if present, otherwise the entry of the  *)
(* reversed pair if present, otherwise the default distance (5000 km); a   *)
(* missing route is never an error.                                        *)
(***************************************************************************)
C9_LookupOrder ==
    IsDistance =>
        LET ordered == call.origin \o "-" \o call.destination
            reversed == call.destination \o "-" \o call.origin
        IN  /\ "distance" \in DOMAIN ret
            /\ ret.distance =
                   IF ordered \in DOMAIN DISTANCE_LOOKUP THEN DISTANCE_LOOKUP[ordered]
                   ELSE IF reversed \in DOMAIN DISTANCE_LOOKUP THEN DISTANCE_LOOKUP[reversed]
                   ELSE 5000

\* A route absent from the table in both directions gets the default.
C9_Witness ==
    /\ IsDistance
    /\ call.origin # call.destination
    /\ (call.origin \o "-" \o call.destination) \notin DOMAIN DISTANCE_LOOKUP
    /\ (call.destination \o "-" \o call.origin) \notin DOMAIN DISTANCE_LOOKUP
    /\ ret.distance = 5000

(***************************************************************************)
(* C10. Distance lookup is symmetric: for every pair of locations A and B, *)
(* in the table or not, distance(A,B) = distance(B,A).                     *)
(***************************************************************************)
C10_Symmetric ==
    IsDistance => ret.distance = getDistance(call.destination, call.origin)

\* A pair asked in the direction the table does not store.
C10_Witness ==
    /\ IsDistance
    /\ (call.origin \o "-" \o call.destination) \notin DOMAIN DISTANCE_LOOKUP
    /\ (call.destination \o "-" \o call.origin) \in DOMAIN DISTANCE_LOOKUP
    /\ ret.distance = DISTANCE_LOOKUP[call.destination \o "-" \o call.origin]

(***************************************************************************)
(* C11. For any non-empty record set with positive weights,                *)
(* total_emissions(records) >= 0 and equals the sum of the per-record      *)
(* emissions, each of which is non-negative.                               *)
(***************************************************************************)
C11_TotalIsSumOfNonNegatives ==
    (IsTotal /\ logs # <<>> /\ \A i \in 1..Len(logs) : logs[i].weight_kg > 0) =>
        /\ ret.total >= 0
        /\ ret.total = SumSeq([i \in 1..Len(logs) |-> Emissions(logs[i])])
        /\ \A i \in 1..Len(logs) : Emissions(logs[i]) >= 0

\* The total of two records of different emissions.
C11_Witness ==
    /\ IsTotal /\ Len(logs) >= 2
    /\ Emissions(logs[1]) # Emissions(logs[2])
    /\ ret.total > Emissions(logs[1])

(***************************************************************************)
(* C12. With the reference factors (sea is the global minimum), blanket    *)
(* optimization of any record set yields                                   *)
(* preview_emissions <= original_emissions, hence delta <= 0.              *)
(***************************************************************************)
C12_BlanketNeverIncreases ==
    (IsSimulate /\ call.sourceTransport = "all" /\ call.targetTransport = Null) =>
        /\ \A m \in TransportTypes : EMISSION_FACTORS.sea <= EMISSION_FACTORS[m]
        /\ Result.previewEmissions <= Result.originalEmissions
        /\ Result.delta <= 0

\* A blanket optimization of a whole two-record set that lowers the total.
C12_Witness ==
    /\ IsSimulate /\ call.sourceTransport = "all" /\ call.targetTransport = Null
    /\ call.specificRouteId = Null
    /\ Len(logs) = 2 /\ Len(Result.affectedRoutes) = 2
    /\ Result.delta < 0

(***************************************************************************)
(* C13. For every record set, optimize_opportunities returns no            *)
(* opportunity with savings <= 0, and the returned sequence is sorted in   *)
(* descending order of savings.                                            *)
(***************************************************************************)
C13_PositiveAndDescending ==
    IsOpportunities =>
        /\ \A i \in 1..Len(ret.opportunities) : ret.opportunities[i].savings > 0
        /\ \A i, j \in 1..Len(ret.opportunities) :
               i < j => ret.opportunities[i].savings >= ret.opportunities[j].savings

\* Two opportunities that the sort has put in the reverse of record order.
C13_Witness ==
    /\ IsOpportunities /\ Len(ret.opportunities) = 2
    /\ ret.opportunities[1].route = logs[2]
    /\ ret.opportunities[2].route = logs[1]
    /\ ret.opportunities[1].savings > ret.opportunities[2].savings

(***************************************************************************)
(* C14. optimize_opportunities chooses the best alternative per record: a  *)
(* record yields exactly one opportunity if and only if the minimum of its *)
(* emissions under every other mode is strictly lower than its current     *)
(* emissions, and then savings = current - that minimum and                *)
(* savings_percent = savings / current x 100; with the reference factors a *)
(* sea record never yields an opportunity and every air or land record     *)
(* does.                                                                   *)
(***************************************************************************)
\* The minimum of a record's emissions under every other mode.
MinOther(r) ==
    CHOOSE e \in { EmissionsAs(r, m) : m \in TransportTypes \ {r.transport_type} } :
        \A m \in TransportTypes \ {r.transport_type} : e <= EmissionsAs(r, m)

OpportunitiesOf(r) == { i \in 1..Len(ret.opportunities) : ret.opportunities[i].route = r }

C14_BestAlternativePerRecord ==
    IsOpportunities =>
        /\ \A i \in 1..Len(ret.opportunities) :
               \E k \in 1..Len(logs) : ret.opportunities[i].route = logs[k]
        /\ \A k \in 1..Len(logs) :
               LET r == logs[k]
               IN  /\ Cardinality(OpportunitiesOf(r)) =
                          (IF MinOther(r) < Emissions(r) THEN 1 ELSE 0)
                   /\ \A i \in OpportunitiesOf(r) :
                          /\ ret.opportunities[i].savings = Emissions(r) - MinOther(r)
                          /\ ret.opportunities[i].savingsPercent =
                                 [tag |-> "num", num |-> Emissions(r) - MinOther(r),
                                  den |-> Emissions(r)]
                   /\ (r.transport_type = "sea" => OpportunitiesOf(r) = {})
                   /\ (r.transport_type \in {"air", "land"} =>
                           Cardinality(OpportunitiesOf(r)) = 1)

\* An air record and a sea record: one opportunity, for the air record.
C14_Witness ==
    /\ IsOpportunities /\ Len(logs) = 2
    /\ logs[1].transport_type = "sea" /\ logs[2].transport_type = "air"
    /\ Len(ret.opportunities) = 1
    /\ ret.opportunities[1].route = logs[2]

(***************************************************************************)
(* C15. insights(records) always contains exactly the three modes air, sea *)
(* and land (all zeros for a mode with no records, and for an empty record *)
(* set); for each mode count is the number of records of that mode,        *)
(* total_weight the sum of their weights and total_emissions the sum of    *)
(* their emissions, so the counts sum to the number of records and the     *)
(* per-mode emissions sum to total_emissions(records).                     *)
(***************************************************************************)
CountOfMode(mode) == Cardinality({ i \in 1..Len(logs) : logs[i].transport_type = mode })

WeightOfMode(mode) ==
    SumSeq([i \in 1..Len(logs) |->
        IF logs[i].transport_type = mode THEN logs[i].weight_kg ELSE 0])

C15_InsightsPerMode ==
    IsInsights =>
        /\ DOMAIN ret.insights = {"air", "sea", "land"}
        /\ \A mode \in {"air", "sea", "land"} :
               /\ ret.insights[mode].count = CountOfMode(mode)
               /\ ret.insights[mode].weight = WeightOfMode(mode)
               /\ ret.insights[mode].emissions = SumOfMode(mode)
        /\ ret.insights.air.count + ret.insights.sea.count + ret.insights.land.count
               = Len(logs)
        /\ ret.insights.air.emissions + ret.insights.sea.emissions
               + ret.insights.land.emissions = calculateTotalEmissions(logs)

\* Two records of one mode, and a mode without records.
C15_Witness ==
    /\ IsInsights /\ Len(logs) = 2
    /\ ret.insights.air.count = 2
    /\ ret.insights.air.weight = logs[1].weight_kg + logs[2].weight_kg
    /\ ret.insights.sea = [count |-> 0, weight |-> 0, emissions |-> 0]

(***************************************************************************)
(* C16. The recommendation is chosen by a fixed five-case table on         *)
(* (is_improvement, target_mode): reduction-to-sea when improving and the  *)
(* target is sea, reduction-to-land when improving and the target is land, *)
(* generic-reduction for any other improvement, increase-to-air when not   *)
(* improving and the target is air, generic-increase otherwise; every      *)
(* (percent_change, target) combination maps to exactly one of these five  *)
(* and no other text is produced.                                          *)
(***************************************************************************)
RecommendationKinds ==
    {"reduction-to-sea", "reduction-to-land", "generic-reduction",
     "increase-to-air", "generic-increase"}

C16_RecommendationTable ==
    IsSimulate =>
        LET improving ==
                Result.percentChange.tag = "num" /\ Result.percentChange.num < 0
            target == call.targetTransport
            kind == Result.recommendation.kind
        IN  /\ kind \in RecommendationKinds
            /\ kind = "reduction-to-sea" <=> (improving /\ target = "sea")
            /\ kind = "reduction-to-land" <=> (improving /\ target = "land")
            /\ kind = "generic-reduction" <=> (improving /\ target \notin {"sea", "land"})
            /\ kind = "increase-to-air" <=> (~improving /\ target = "air")
            /\ kind = "generic-increase" <=> (~improving /\ target # "air")

\* A substitution to land that lowers the emissions.
C16_Witness ==
    /\ IsSimulate /\ call.targetTransport = "land"
    /\ Result.percentChange.tag = "num" /\ Result.percentChange.num < 0
    /\ Result.recommendation.kind = "reduction-to-land"

(***************************************************************************)
(* C20. simulate, insights and optimize_opportunities leave the caller's   *)
(* record sequence unchanged: after any sequence of calls the records have *)
(* the same order, the same length and the same field values (in           *)
(* particular transport_type), and the factor and distance tables are      *)
(* unchanged.                                                              *)
(***************************************************************************)
C20_RecordsUnchanged ==
    [][/\ Len(logs') = Len(logs)
       /\ \A i \in 1..Len(logs) : logs'[i] = logs[i]
       /\ EMISSION_FACTORS' = EMISSION_FACTORS
       /\ DISTANCE_LOOKUP' = DISTANCE_LOOKUP]_vars

\* The sort has reordered the opportunities and the records are in the order
\* they were handed over in.
C20_Witness ==
    /\ IsOpportunities /\ Len(logs) = 2 /\ Len(ret.opportunities) = 2
    /\ [i \in 1..2 |-> ret.opportunities[i].route.id] = <<RecordIds[2], RecordIds[1]>>
    /\ IdsOf(logs) = <<RecordIds[1], RecordIds[2]>>

(***************************************************************************)
(* C19. A record whose transport_type has no entry in the emission-factor  *)
(* table makes emissions, total_emissions, simulate, insights and          *)
(* optimize_opportunities fail with a configuration error; none of them    *)
(* returns a numeric result or applies a per-record fallback for such a    *)
(* record.                                                                 *)
(***************************************************************************)
\* What the last call did: the outcome and value of whichever result is held.
Outcome ==
    IF IsTotal THEN ret.total
    ELSE IF IsSimulate THEN ret.scenario
    ELSE IF IsInsights THEN ret.insights
    ELSE ret.opportunities

C19_UnknownModeIsConfigurationError ==
    (~Idle /\ \E i \in 1..Len(logs) : ~HasFactor(logs[i].transport_type)) =>
        Outcome.outcome = "ConfigurationError"

\* The last call was detectAndCalculateScenario; Text is the user's text as
\* the patterns see it, in lower case, Request what was extracted from it.
IsDetect == call.op = "detectAndCalculateScenario"
Text == ret.detected.input
Request == ret.detected.request

\* The three kinds of trigger.
ConditionalPhrasing ==
    \/ includes(Text, "what if")
    \/ \E verb \in {"switch", "change", "convert"} : testThen(Text, verb, "to")
    \/ testThen(Text, "replace", "with")

AllModePhrasing == \E mode \in TransportTypes : testThen(Text, "all", mode)

ActionVerb == \E verb \in {"eliminate", "reduce", "improve"} : includes(Text, verb)

(***************************************************************************)
(* C17. extract(text) returns null when the text matches none of the       *)
(* trigger patterns (conditional/hypothetical phrasing, "all <mode>"       *)
(* phrasing, or the verbs eliminate/reduce/improve), and returns a         *)
(* scenario (non-null) whenever at least one pattern matches.              *)
(***************************************************************************)
C17_NullIffNoTrigger ==
    IsDetect =>
        (ret.detected.isNull <=> ~(ConditionalPhrasing \/ AllModePhrasing \/ ActionVerb))

\* A text in capitals whose only trigger is a verb, on loaded records: a
\* scenario is returned.
C17_Witness ==
    /\ IsDetect /\ logs # <<>>
    /\ ActionVerb /\ ~ConditionalPhrasing /\ ~AllModePhrasing
    /\ ~ret.detected.isNull
    /\ call.userInput # Text
    /\ ret.detected.scenario.originalEmissions > 0

(***************************************************************************)
(* C18. For a triggered text, the extracted request is determined by       *)
(* order-sensitive rules where a later rule overwrites an earlier one:     *)
(* source = air when the text contains "air"; target = sea when the text   *)
(* contains "sea", unless the text has the phrase "sea to "; when the text *)
(* contains "to land" target = land (overwriting a sea target), and when   *)
(* it contains "land" without "to land" source = land (overwriting an air  *)
(* source); fields that no rule sets stay null.                            *)
(***************************************************************************)
\* The rules applied in order to a <<source, target>> pair that starts null.
AfterAirRule == IF includes(Text, "air") THEN <<"air", Null>> ELSE <<Null, Null>>

AfterSeaRule ==
    IF includes(Text, "sea") /\ ~includes(Text, "sea to ")
    THEN <<AfterAirRule[1], "sea">> ELSE AfterAirRule

AfterLandRule ==
    IF includes(Text, "to land") THEN <<AfterSeaRule[1], "land">>
    ELSE IF includes(Text, "land") THEN <<"land", AfterSeaRule[2]>>
    ELSE AfterSeaRule

C18_OrderSensitiveRules ==
    (IsDetect /\ ~ret.detected.isNull) =>
        /\ Request.sourceTransport = AfterLandRule[1]
        /\ Request.targetTransport = AfterLandRule[2]

(***************************************************************************)
(* C21. Reference scenario: for the three records {sea, 15000 kg,          *)
(* 12000 km}, {air, 8500 kg, 10800 km}, {land, 2200 kg, 880 km} with       *)
(* factors air=0.255, sea=0.0112, land=0.0613, per-record emissions are    *)
(* 2016.0, 1133.4 and 11.88 and the baseline is 3161.28; simulating        *)
(* source=air, target=sea affects only the air record and gives            *)
(* preview_emissions 3056.04, delta -105.24 and percent_change about       *)
(* -3.33.                                                                  *)
(* Figures are in units of 10^-4 kg.  The amended statement has the        *)
(* figures the formula gives: 2016.0, 23409.0 and 118.6768, baseline       *)
(* 25543.6768, preview 3162.8368, delta -22380.84, percent about -87.62.   *)
(***************************************************************************)
\* The reference run: the three records, source air, target sea.
IsReferenceRun ==
    /\ IsSimulate
    /\ logs = SubSeq(ProviderRecords, 1, 3)
    /\ call.sourceTransport = "air" /\ call.targetTransport = "sea"
    /\ call.specificRouteId = Null

OwnReferenceEmissions ==
    [i \in 1..Len(logs) |-> referenceEmissionsOf(logs[i], logs[i].transport_type)]

IsServerGet == call.op = "getSupplyChainRecords"
IsClientGet == call.op = "simulateSupplyChainRecords"
Response == ret.response

\* The records of a list that match the filter of the call: the record of
\* the id when one is given, else the records of the transport type when one
\* is given, else all.
Matching(records) ==
    IF call.record_id # Null THEN SelectSeq(records, LAMBDA r : r.id = call.record_id)
    ELSE IF call.transport_type # Null
    THEN SelectSeq(records, LAMBDA r : r.transport_type = call.transport_type)
    ELSE records

(***************************************************************************)
(* C22. Server tool get_supply_chain_records: limit is the maximum number  *)
(* of records returned (default 100 when absent); for every limit >= 0 the *)
(* response has returned_count = number of records returned <= limit,      *)
(* total_count = number of records matching the filter before the limit is *)
(* applied, and the returned records are the first returned_count matches  *)
(* in database order.                                                      *)
(***************************************************************************)
C22_LimitIsMaximum ==
    IsServerGet =>
        LET limit == IF call.limit.given THEN call.limit.value ELSE 100
        IN  /\ Response.returned_count = Len(Response.records)
            /\ Response.returned_count <= limit
            /\ Response.total_count = Len(Matching(logs))
            /\ Response.records = SubSeq(Matching(logs), 1, Response.returned_count)

(***************************************************************************)
(* C23. Per-affected-route summaries: the result lists exactly one summary *)
(* per affected record, in record order, and each summary's percent change *)
(* is computed between that record's own original emissions and its        *)
(* hypothetical emissions under the simulated scenario (the target factor  *)
(* in mode substitution, the global lowest factor in blanket               *)
(* optimization), labelled "increase" when the hypothetical emissions are  *)
(* higher and "reduction" otherwise.                                       *)
(***************************************************************************)
\* A record's emissions under the scenario of the call.
Hypothetical(r) ==
    IF call.targetTransport # Null THEN EmissionsAs(r, call.targetTransport)
    ELSE IF call.sourceTransport = "all"
    THEN r.weight_kg * getDistance(r.origin, r.destination) * LowestFactor
    ELSE Emissions(r)

C23_SummaryPerAffectedRecord ==
    IsSimulate =>
        LET affected == affectedRoutesOf(logs, call.sourceTransport, call.specificRouteId)
        IN  /\ Len(Result.affectedRoutes) = Len(affected)
            /\ \A i \in 1..Len(affected) :
                   LET r == affected[i]
                       summary == Result.affectedRoutes[i]
                   IN  /\ summary.id = r.id
                       /\ summary.percent = Percent(Hypothetical(r) - Emissions(r), Emissions(r))
                       /\ summary.word =
                              (IF Hypothetical(r) > Emissions(r) THEN "increase"
                               ELSE "reduction")

(***************************************************************************)
(* C24. When a triggered text names an existing record with `route <id>`   *)
(* or `shipment <id>` (for example "route SC002") and sets no conflicting  *)
(* source mode, the scenario computed by the consultant affects exactly    *)
(* that one record: the identifier handed to simulate equals the record's  *)
(* id as stored, so the empty-selection fallback to all records is not     *)
(* taken.                                                                  *)
(***************************************************************************)
\* The user's text names record r, and the source extracted from it, if any,
\* is the record's own transport type.
NamesRecord(r) ==
    /\ \/ includes(call.userInput, "route " \o r.id)
       \/ includes(call.userInput, "shipment " \o r.id)
    /\ Request.sourceTransport \in {Null, r.transport_type}

C24_NamedRecordAloneAffected ==
    (IsDetect /\ ~ret.detected.isNull) =>
        \A k \in 1..Len(logs) :
            NamesRecord(logs[k]) =>
                /\ Request.specificRouteId = logs[k].id
                /\ IdsOf(ret.detected.scenario.affectedRoutes) = <<logs[k].id>>

(***************************************************************************)
(* The dashboard page and the consultant component.  The page keeps        *)
(* activeTab and previewScore; the consultant, rendered only while its tab *)
(* is the active one, keeps activeScenario and its messages, of which the  *)
(* model keeps the last one.  A component that is not rendered holds no    *)
(* state: the next mount starts from the useState initial values.          *)
(***************************************************************************)
NoValue == [isNull |-> TRUE]
Holding(x) == [isNull |-> FALSE, value |-> x]

LeZero(p) == (p.tag = "num" /\ p.num <= 0) \/ p.tag = "-Infinity"
GtZero(p) == (p.tag = "num" /\ p.num > 0) \/ p.tag = "Infinity"

\* buildScenarioResponse: the assistant message for a detected scenario.
buildScenarioResponse(scenario) ==
    LET isReduction == LeZero(scenario.percentChange)
    IN  [role |-> "assistant", kind |-> "scenario",
         action |-> IF isReduction THEN "reduce" ELSE "increase",
         recommendation |-> scenario.recommendation.kind]

\* The active-scenario banner of the consultant.
bannerOf(scenario) ==
    IF GtZero(scenario.percentChange) THEN "Increase" ELSE "Reduction"

Greeting == [role |-> "assistant", kind |-> "greeting",
             action |-> "none", recommendation |-> "none"]
GeneralResponse == [role |-> "assistant", kind |-> "general",
                    action |-> "none", recommendation |-> "none"]
PreviewCleared == [role |-> "assistant", kind |-> "cleared",
                   action |-> "none", recommendation |-> "none"]

\* useState initial values of SustainabilityConsultant
ConsultantMounted == [activeScenario |-> NoValue, lastMessage |-> Greeting]

\* handleUserMessage, from the user's text to the component state and the
\* value handed to onPreviewScoreChange (NoValue: the callback is not called).
handleUserMessage(userInput, ls) ==
    LET detected == detectAndCalculateScenario(userInput, ls)
    IN  IF detected.isNull
        THEN [activeScenario |-> NoValue, set |-> FALSE,
              lastMessage |-> GeneralResponse]
        ELSE [activeScenario |-> Holding(detected.scenario), set |-> TRUE,
              lastMessage |-> buildScenarioResponse(detected.scenario)]

\* Messages of the chat: one without a trigger, then triggers with a target
\* mode, with a source mode only, and with both.
ChatInputs ==
    { "tomorrow", "What if sea", "reduce air", "reduce to land",
      "switch to sea", "What if air sea" }

\* The records of the page: none before the first load, then one record.
PageLogSets == LogsOfLen(0) \cup LogsOfLen(1)

InitPreview ==
    /\ logs \in PageLogSets
    /\ call = [op |-> "none"]
    /\ ret = [none |-> TRUE]
    /\ ui = [mounted |-> FALSE, activeTab |-> "logs", previewScore |-> NoValue]

\* The Consultant tab button: the consultant is mounted.
ShowConsultant ==
    /\ ui.activeTab = "logs"
    /\ ui' = [mounted |-> TRUE, activeTab |-> "consultant",
              previewScore |-> ui.previewScore,
              activeScenario |-> ConsultantMounted.activeScenario,
              lastMessage |-> ConsultantMounted.lastMessage]
    /\ UNCHANGED <<logs, call, ret>>

\* The Logs tab button: the consultant is unmounted, the page state stays.
ShowLogs ==
    /\ ui.activeTab = "consultant"
    /\ ui' = [mounted |-> FALSE, activeTab |-> "logs",
              previewScore |-> ui.previewScore]
    /\ UNCHANGED <<logs, call, ret>>

\* The user sends a message in the chat of the mounted consultant.
SendMessage ==
    /\ ui.mounted
    /\ \E userInput \in ChatInputs :
        LET after == handleUserMessage(userInput, logs)
        IN  ui' = [ui EXCEPT
                     !.activeScenario = IF after.set THEN after.activeScenario ELSE @,
                     !.previewScore = IF after.set
                                      THEN Holding(after.activeScenario.value.previewScore)
                                      ELSE @,
                     !.lastMessage = after.lastMessage]
    /\ UNCHANGED <<logs, call, ret>>

\* handleClearScenario: the Clear Preview button is rendered only while the
\* consultant holds an active scenario.
ClearScenario ==
    /\ ui.mounted
    /\ ~ui.activeScenario.isNull
    /\ ui' = [ui EXCEPT !.activeScenario = NoValue,
                        !.previewScore = NoValue,
                        !.lastMessage = PreviewCleared]
    /\ UNCHANGED <<logs, call, ret>>

NextPreview ==
    \/ ShowConsultant
    \/ ShowLogs
    \/ SendMessage
    \/ ClearScenario

SpecPreview == InitPreview /\ [][NextPreview]_vars

\* The consultant on screen holds an active scenario.
HoldsActiveScenario == ui.mounted /\ ~ui.activeScenario.isNull

\* C25: over any sequence of sends, clears and tab switches, the page's
\* previewScore is non-null exactly when the consultant holds an active
\* scenario, so a preview on the canvas always comes with Clear Preview.
C25_PreviewIffActiveScenario ==
    (~ui.previewScore.isNull) <=> HoldsActiveScenario

ReductionKinds == {"reduction-to-sea", "reduction-to-land", "generic-reduction"}

\* C26: the direction of a scenario is the same wherever it is shown: the
\* recommendation speaks of a reduction exactly when the scenario response
\* and the active-scenario banner present the result as a reduction,
\* percentChange = 0 included.
C26_SameDirectionEverywhere ==
    HoldsActiveScenario =>
        LET scenario == ui.activeScenario.value
            speaksOfReduction == scenario.recommendation.kind \in ReductionKinds
        IN  /\ speaksOfReduction <=> (bannerOf(scenario) = "Reduction")
            /\ ui.lastMessage.kind = "scenario" =>
                   /\ ui.lastMessage.recommendation = scenario.recommendation.kind
                   /\ speaksOfReduction <=> (ui.lastMessage.action = "reduce")

IsServerFootprint == call.op = "calculateCarbonFootprint"
IsClientFootprint == call.op = "simulateCarbonEmissions"

\* The record a result of the tool was computed from.
RecordOf(db, result) == CHOOSE r \in { db[i] : i \in 1..Len(db) } : r.id = result.record_id

\* C27: for every record, a reverse-only route included, the distance and
\* the unrounded emissions of the carbon-footprint tool, on the server and
\* on the simulated client, are those the scenario engine uses.
C27_ToolAgreesWithEngine ==
    /\ IsServerFootprint =>
          \A i \in 1..Len(Response.results) :
              LET result == Response.results[i]
                  record == RecordOf(logs, result)
              IN  /\ result.distance_km = getDistance(record.origin, record.destination)
                  /\ result.emissions = Emissions(record)
    /\ IsClientFootprint =>
          \A i \in 1..Len(Response.results) :
              LET result == Response.results[i]
                  record == RecordOf(ProviderRecords, result)
              IN  /\ result.distance_km = getDistance(record.origin, record.destination)
                  /\ result.emissions = referenceEmissionsOf(record, record.transport_type)

\* C28: in every get_supply_chain_records response, of the server and of
\* the simulated client, returned_count is the number of records in the
\* response and total_count the number of matching records; a record_id
\* that matches nothing gives no records and both counts 0.
C28_CountsMatchRecords ==
    /\ IsServerGet =>
          /\ Response.returned_count = Len(Response.records)
          /\ Response.total_count = Len(Matching(logs))
    /\ IsClientGet =>
          /\ Response.returned_count = Len(Response.records)
          /\ Response.total_count = Len(Matching(ProviderRecords))

(***************************************************************************)
(* Polling of the page.  loadData runs once on mount and then on every     *)
(* tick of the interval; each run clears the error, awaits the provider's  *)
(* promise and continues when it settles.  Nothing orders the settling of  *)
(* two promises, and the interval does not wait for the previous run.      *)
(***************************************************************************)
MaxLoads == 3

LoadIds == 1..MaxLoads

FailedToLoad == "Failed to load data"

\* What a resolved promise carries: an answer without records, or records.
ProviderAnswers == { [hasRecords |-> FALSE, records |-> <<>>],
                     [hasRecords |-> TRUE, records |-> <<>>],
                     [hasRecords |-> TRUE, records |-> SubSeq(ProviderRecords, 1, 1)],
                     [hasRecords |-> TRUE, records |-> SubSeq(ProviderRecords, 1, 2)] }

\* useState initial values of Dashboard; no load started yet.
InitPolling ==
    /\ logs = <<>>
    /\ call = [op |-> "none"]
    /\ ret = [none |-> TRUE]
    /\ ui = [mounted |-> TRUE, isLoading |-> TRUE, error |-> Null,
             started |-> 0, outcome |-> [n \in LoadIds |-> "none"]]

InFlight == { n \in LoadIds : ui.outcome[n] = "pending" }

\* loadData up to its await: on mount and on every tick of the interval.
StartLoad ==
    /\ ui.started < MaxLoads
    /\ ui' = [ui EXCEPT !.isLoading = TRUE,
                        !.error = Null,
                        !.started = @ + 1,
                        !.outcome[ui.started + 1] = "pending"]
    /\ UNCHANGED <<logs, call, ret>>

\* The promise of a run resolves: the try block continues, then finally.
LoadResolves ==
    /\ \E n \in InFlight, data \in ProviderAnswers :
        /\ logs' = IF data.hasRecords THEN data.records ELSE logs
        /\ ui' = [ui EXCEPT !.isLoading = FALSE, !.outcome[n] = "loaded"]
    /\ UNCHANGED <<call, ret>>

\* The promise of a run rejects: catch, then finally.
LoadRejects ==
    /\ \E n \in InFlight :
        ui' = [ui EXCEPT !.error = FailedToLoad,
                         !.isLoading = FALSE,
                         !.outcome[n] = "failed"]
    /\ UNCHANGED <<logs, call, ret>>

NextPolling ==
    \/ StartLoad
    \/ LoadResolves
    \/ LoadRejects

SpecPolling == InitPolling /\ [][NextPolling]_vars

MaxMessages == 2

userMessage(id) == [role |-> "user", kind |-> "text", id |-> id]
assistantMessage(kind, id) == [role |-> "assistant", kind |-> kind, id |-> id]

\* A continuation that leaves isLoading as it is when the try block threw.
settleWithoutFinally(c, p, threw) ==
    IF threw
    THEN [c EXCEPT !.messages = Append(@, assistantMessage("error", p.id)),
                   !.pending = @ \ {p}]
    ELSE LET after == p.promise
         IN  [c EXCEPT !.messages = Append(@, assistantMessage(after.lastMessage.kind, p.id)),
                       !.activeScenario = IF after.set THEN after.activeScenario ELSE @,
                       !.isLoading = FALSE,
                       !.pending = @ \ {p}]

\* handleUserMessage after its await, for the pending message p, whose
\* promise holds what detectAndCalculateScenario made of the text and of the
\* records when it was called: the try block to its end, or the catch when
\* something in it threw, then finally.
settle(c, p, threw) ==
    IF threw
    THEN [c EXCEPT !.messages = Append(@, assistantMessage("error", p.id)),
                   !.isLoading = FALSE,
                   !.pending = @ \ {p}]
    ELSE LET after == p.promise
         IN  [c EXCEPT !.messages = Append(@, assistantMessage(after.lastMessage.kind, p.id)),
                       !.activeScenario = IF after.set THEN after.activeScenario ELSE @,
                       !.isLoading = FALSE,
                       !.pending = @ \ {p}]

\* useState initial values of SustainabilityConsultant
InitChat ==
    /\ logs \in IntentLogSets
    /\ call = [op |-> "none"]
    /\ ret = [none |-> TRUE]
    /\ ui = [mounted |-> TRUE, isLoading |-> FALSE, activeScenario |-> NoValue,
             messages |-> <<assistantMessage("greeting", 0)>>,
             sent |-> 0, pending |-> {}]

\* handleUserMessage up to its await.
Receive ==
    /\ ui.sent < MaxMessages
    /\ \E userInput \in ChatInputs :
        ui' = [ui EXCEPT !.messages = Append(@, userMessage(ui.sent + 1)),
                         !.isLoading = TRUE,
                         !.sent = @ + 1,
                         !.pending = @ \cup {[id |-> ui.sent + 1,
                                               promise |-> handleUserMessage(userInput, logs)]}]
    /\ UNCHANGED <<logs, call, ret>>

\* handleUserMessage from its await to its end.
Settle ==
    /\ \E p \in ui.pending, threw \in BOOLEAN : ui' = settle(ui, p, threw)
    /\ UNCHANGED <<logs, call, ret>>

\* handleClearScenario
ClearPreview ==
    /\ ~ui.activeScenario.isNull
    /\ ui' = [ui EXCEPT !.activeScenario = NoValue,
                        !.messages = Append(@, assistantMessage("cleared", 0))]
    /\ UNCHANGED <<logs, call, ret>>

NextChat ==
    \/ Receive
    \/ Settle
    \/ ClearPreview

SpecChat == InitChat /\ [][NextChat]_vars /\ WF_vars(Settle)

MessageIds == 1..MaxMessages
AnswerKinds == {"scenario", "general", "error"}

\* The positions of the messages list holding the user's message id, and
\* those holding an assistant message that answers it.
PositionsOfMessage(id) ==
    { i \in 1..Len(ui.messages) : ui.messages[i].role = "user" /\ ui.messages[i].id = id }
PositionsOfAnswer(id) ==
    { i \in 1..Len(ui.messages) : ui.messages[i].role = "assistant" /\ ui.messages[i].id = id }

Sent(id) == PositionsOfMessage(id) # {}

\* Exactly one answer, of one of the three kinds, after the message.
Answered(id) ==
    /\ Cardinality(PositionsOfAnswer(id)) = 1
    /\ \A i \in PositionsOfAnswer(id) :
          /\ ui.messages[i].kind \in AnswerKinds
          /\ \A j \in PositionsOfMessage(id) : j < i

\* C30: every message sent to the consultant is eventually answered by
\* exactly one assistant message appended after it (scenario analysis,
\* general answer or error message), never by more, and isLoading, true
\* once the message is received, eventually returns to false, whether the
\* detection succeeds, returns null or throws.
C30_EveryMessageAnswered ==
    /\ [](\A id \in MessageIds : Cardinality(PositionsOfAnswer(id)) <= 1)
    /\ [][/\ \A id \in MessageIds : Answered(id) => Answered(id)'
          /\ ui'.sent # ui.sent => ui'.isLoading]_vars
    /\ \A id \in MessageIds : Sent(id) ~> Answered(id)
    /\ ui.isLoading ~> ~ui.isLoading

C30_Witness ==
    /\ ui.sent = MaxMessages /\ ui.pending = {} /\ ~ui.isLoading
    /\ \A kind \in {"scenario", "error"} :
          \E i \in 1..Len(ui.messages) : ui.messages[i].kind = kind
    /\ \A id \in MessageIds : Answered(id)

====
